---- MODULE Spec2Model ----
(***************************************************************************)
(* Schema negotiation (EnsureSchema) and the wire envelope (Encode/Decode) *)
(* of pkg/monitoring/schema_registry.go.                                   *)
(*                                                                         *)
(* A schema text is a sequence of JSON tokens; an error text is a sequence *)
(* of words; an envelope is a sequence of bytes.                           *)
(***************************************************************************)
EXTENDS Integers, Sequences, FiniteSets, TLC

(***************************************************************************)
(* Bounds of the model.                                                    *)
(***************************************************************************)
\* EnsureSchema calls started in one behaviour
MaxCalls == 2
\* answers of the backend that are failures of the transport or of a gateway
MaxFaults == 1

Subjects == {"X", "Y", "Z"}
Callers == {"c1", "c2"}

(***************************************************************************)
(* Schema texts.  Render writes an Avro record schema as JSON tokens, with *)
(* a choice of key order and of whitespace.                                *)
(***************************************************************************)
WS == " "
Punct == {"{", "}", "[", "]", ":", ","}

RECURSIVE RenderList(_, _)
RenderList(fields, pretty) ==
    IF fields = <<>> THEN <<>>
    ELSE IF Len(fields) = 1 THEN <<fields[1]>>
    ELSE <<fields[1], ",">> \o (IF pretty THEN <<WS>> ELSE <<>>)
         \o RenderList(Tail(fields), pretty)

RenderName(s, pretty) ==
    <<"name", ":">> \o (IF pretty THEN <<WS>> ELSE <<>>) \o <<s.name>>

RenderFields(s, pretty) ==
    <<"fields", ":">> \o (IF pretty THEN <<WS>> ELSE <<>>)
    \o <<"[">> \o RenderList(s.fields, pretty) \o <<"]">>

Render(s, first, pretty) ==
    LET sep == <<",">> \o (IF pretty THEN <<WS, WS>> ELSE <<>>)
        open == <<"{">> \o (IF pretty THEN <<WS>> ELSE <<>>)
        close == (IF pretty THEN <<WS>> ELSE <<>>) \o <<"}">>
    IN  open
        \o (IF first = "name"
            THEN RenderName(s, pretty) \o sep \o RenderFields(s, pretty)
            ELSE RenderFields(s, pretty) \o sep \o RenderName(s, pretty))
        \o close

SchemaA == [name |-> "T", fields |-> <<"a", "b">>]
\* SchemaA with its fields in the other order
SchemaAr == [name |-> "T", fields |-> <<"b", "a">>]
SchemaB == [name |-> "T", fields |-> <<"a", "c">>]

Compact == <<"name", FALSE>>
KeysSwapped == <<"fields", FALSE>>
Pretty == <<"name", TRUE>>

\* the (schema, layout) pairs the callers' specs are written from
Origins ==
    {<<SchemaA, Compact>>, <<SchemaA, KeysSwapped>>, <<SchemaA, Pretty>>,
     <<SchemaAr, Compact>>, <<SchemaB, Compact>>}

TextOf(o) == Render(o[1], o[2][1], o[2][2])

\* a truncated document: no JSON value
BadText == <<"{", "name", ":", "T">>

\* the record schema a text was written from
SchemaOf(text) == (CHOOSE o \in Origins : TextOf(o) = text)[1]

ValidTexts == {TextOf(o) : o \in Origins}
SpecTexts == ValidTexts \cup {BadText}

(***************************************************************************)
(* json.Unmarshal into interface{}: objects become maps (the last of two   *)
(* equal keys wins), arrays become slices, everything else a scalar.       *)
(***************************************************************************)
NoValue == [kind |-> "none"]
ParseFail == [ok |-> FALSE, val |-> NoValue, pos |-> 0]

RECURSIVE SkipWs(_, _)
SkipWs(toks, i) ==
    IF i <= Len(toks) /\ toks[i] = WS THEN SkipWs(toks, i + 1) ELSE i

RECURSIVE ParseValue(_, _)
RECURSIVE ParseMembers(_, _, _)
RECURSIVE ParseElements(_, _, _)

ParseMembers(toks, i0, acc) ==
    LET k == SkipWs(toks, i0) IN
    IF k > Len(toks) \/ toks[k] \in Punct THEN ParseFail
    ELSE LET c == SkipWs(toks, k + 1) IN
         IF c > Len(toks) \/ toks[c] # ":" THEN ParseFail
         ELSE LET r == ParseValue(toks, c + 1) IN
              IF ~r.ok THEN ParseFail
              ELSE LET acc2 == [x \in DOMAIN acc \cup {toks[k]} |->
                                   IF x = toks[k] THEN r.val ELSE acc[x]]
                       n == SkipWs(toks, r.pos)
                   IN  IF n > Len(toks) THEN ParseFail
                       ELSE IF toks[n] = "," THEN ParseMembers(toks, n + 1, acc2)
                       ELSE IF toks[n] = "}"
                            THEN [ok |-> TRUE,
                                  val |-> [kind |-> "map", members |-> acc2],
                                  pos |-> n + 1]
                       ELSE ParseFail

ParseElements(toks, i0, acc) ==
    LET r == ParseValue(toks, i0) IN
    IF ~r.ok THEN ParseFail
    ELSE LET acc2 == Append(acc, r.val)
             n == SkipWs(toks, r.pos)
         IN  IF n > Len(toks) THEN ParseFail
             ELSE IF toks[n] = "," THEN ParseElements(toks, n + 1, acc2)
             ELSE IF toks[n] = "]"
                  THEN [ok |-> TRUE,
                        val |-> [kind |-> "slice", elems |-> acc2],
                        pos |-> n + 1]
             ELSE ParseFail

ParseValue(toks, i0) ==
    LET i == SkipWs(toks, i0) IN
    IF i > Len(toks) THEN ParseFail
    ELSE IF toks[i] = "{"
         THEN LET j == SkipWs(toks, i + 1) IN
              IF j <= Len(toks) /\ toks[j] = "}"
              THEN [ok |-> TRUE,
                    val |-> [kind |-> "map", members |-> <<>>],
                    pos |-> j + 1]
              ELSE ParseMembers(toks, i + 1, <<>>)
    ELSE IF toks[i] = "["
         THEN LET j == SkipWs(toks, i + 1) IN
              IF j <= Len(toks) /\ toks[j] = "]"
              THEN [ok |-> TRUE,
                    val |-> [kind |-> "slice", elems |-> <<>>],
                    pos |-> j + 1]
              ELSE ParseElements(toks, i + 1, <<>>)
    ELSE IF toks[i] \in Punct THEN ParseFail
    ELSE [ok |-> TRUE, val |-> [kind |-> "scalar", text |-> toks[i]], pos |-> i + 1]

\* json.Unmarshal: one value, then nothing but whitespace
Unmarshal(text) ==
    LET r == ParseValue(text, 1) IN
    IF r.ok /\ SkipWs(text, r.pos) > Len(text)
    THEN [ok |-> TRUE, val |-> r.val]
    ELSE [ok |-> FALSE, val |-> NoValue]

\* two values compared by their kind alone
ObjectsAreEqual_shallow(a, b) == a.kind = b.kind

\* assert.ObjectsAreEqual on two unmarshalled values: reflect.DeepEqual
ObjectsAreEqual(a, b) == a = b

\* the two texts compared as written, without unmarshalling them
isEqualJSON_text(a, b) == [equal |-> a = b, err |-> "nil"]

\* two texts taken as equal when both are JSON values
isEqualJSON_parses(a, b) ==
    LET ua == Unmarshal(a)
        ub == Unmarshal(b)
    IN  IF ~ua.ok THEN [equal |-> FALSE, err |-> "unmarshal first"]
        ELSE IF ~ub.ok THEN [equal |-> FALSE, err |-> "unmarshal second"]
        ELSE [equal |-> TRUE, err |-> "nil"]

\* isEqualJSON(a, b): (equal, err)
isEqualJSON(a, b) ==
    LET ua == Unmarshal(a)
        ub == Unmarshal(b)
    IN  IF ~ua.ok THEN [equal |-> FALSE, err |-> "unmarshal first"]
        ELSE IF ~ub.ok THEN [equal |-> FALSE, err |-> "unmarshal second"]
        ELSE [equal |-> ObjectsAreEqual(ua.val, ub.val), err |-> "nil"]

(***************************************************************************)
(* Errors of the registry backend.  An error text is the HTTP status line  *)
(* followed by the registry's message, or the transport's own text.        *)
(***************************************************************************)
NoErr == <<>>
\* the registry's answer for a subject with no schema (error code 40401)
SubjectNotFoundMsg == <<"404", "Not", "Found", ":", "Subject", "not", "found.">>
\* a 404 answered by something on the way to the registry (a proxy, a wrong
\* base path): the status line alone, whatever the subject holds
GatewayNotFoundMsg == <<"404", "Not", "Found">>
DialMsg == <<"dial", "tcp:", "connection", "refused">>
InvalidSchemaMsg == <<"422", "Unprocessable", "Entity", ":", "Invalid", "schema">>

NotFoundPrefix == <<"404", "Not", "Found">>

HasPrefix(s, prefix) ==
    Len(s) >= Len(prefix) /\ SubSeq(s, 1, Len(prefix)) = prefix

\* the error text compared as a whole with the status line
isNotFoundErr_whole(err) == err = NotFoundPrefix

\* isNotFoundErr(err): strings.HasPrefix(err.Error(), "404 Not Found")
isNotFoundErr(err) == HasPrefix(err, NotFoundPrefix)

NoSchema == [id |-> 0, version |-> 0, schema |-> <<>>]

\* the causes of an answer that are failures on the way to the registry
Faults == {"transport", "gateway"}

VARIABLES
    registry,   \* subject -> the sequence of its versions, the last the latest
    nextId,     \* the id the registry gives to the next version
    inUse,      \* the subjects the callers negotiate
    faults,     \* failures the transport or a gateway has answered so far
    main,       \* the host process: where it is in its startup, what it holds
    call,       \* caller -> its EnsureSchema call in progress
    hist,       \* the EnsureSchema calls that returned, in the order of return
    wire        \* one use of a Schema: the value, its envelope, what Decode gave

vars == <<registry, nextId, inUse, faults, main, call, hist, wire>>

NoMain == [pc |-> "none"]

Idle == [pc |-> "idle"]

InFlight == {c \in Callers : call[c].pc # "idle"}
Started == Len(hist) + Cardinality(InFlight)

(***************************************************************************)
(* The registry backend (srclient.SchemaRegistryClient).                   *)
(***************************************************************************)
\* GetLatestSchema(subject): the answers the backend can give
GetLatestSchema(subject) ==
    (IF registry[subject] # <<>>
     THEN {[err |-> NoErr, cause |-> "none",
            schema |-> registry[subject][Len(registry[subject])]]}
     ELSE {[err |-> SubjectNotFoundMsg, cause |-> "absent", schema |-> NoSchema]})
    \cup (IF faults < MaxFaults
          THEN {[err |-> DialMsg, cause |-> "transport", schema |-> NoSchema],
                [err |-> GatewayNotFoundMsg, cause |-> "gateway", schema |-> NoSchema]}
          ELSE {})

\* the version a successful CreateSchema(subject, spec) adds
NewVersion(subject, spec) ==
    [id |-> nextId, version |-> Len(registry[subject]) + 1, schema |-> spec]

\* CreateSchema(subject, spec, Avro): the answers the backend can give
CreateSchema(subject, spec) ==
    (IF Unmarshal(spec).ok
     THEN {[err |-> NoErr, cause |-> "none", schema |-> NewVersion(subject, spec)]}
     ELSE {[err |-> InvalidSchemaMsg, cause |-> "invalid", schema |-> NoSchema]})
    \cup (IF faults < MaxFaults
          THEN {[err |-> DialMsg, cause |-> "transport", schema |-> NoSchema]}
          ELSE {})

(***************************************************************************)
(* EnsureSchema(subject, spec).                                            *)
(***************************************************************************)
NoError == [op |-> "none", subject |-> "", cause |-> NoErr]

\* a client that registers the spec again when it has found it registered
AfterFetch_rewrite(subject, spec, r) ==
    IF r.err # NoErr /\ ~isNotFoundErr(r.err)
    THEN [step |-> "return", branch |-> "none", schema |-> NoSchema,
          err |-> [op |-> "read", subject |-> subject, cause |-> r.err]]
    ELSE IF r.err # NoErr /\ isNotFoundErr(r.err)
    THEN [step |-> "create", branch |-> "new", schema |-> NoSchema, err |-> NoError]
    ELSE LET cmp == isEqualJSON(r.schema.schema, spec) IN
         IF cmp.err # "nil"
         THEN [step |-> "return", branch |-> "none", schema |-> NoSchema,
               err |-> [op |-> "compare", subject |-> "", cause |-> <<cmp.err>>]]
         ELSE [step |-> "create", branch |-> "update", schema |-> NoSchema,
               err |-> NoError]

\* a client that parses the spec before it registers it under a new subject
AfterFetch_parsed(subject, spec, r) ==
    IF r.err # NoErr /\ ~isNotFoundErr(r.err)
    THEN [step |-> "return", branch |-> "none", schema |-> NoSchema,
          err |-> [op |-> "read", subject |-> subject, cause |-> r.err]]
    ELSE IF r.err # NoErr /\ isNotFoundErr(r.err)
    THEN IF Unmarshal(spec).ok
         THEN [step |-> "create", branch |-> "new", schema |-> NoSchema,
               err |-> NoError]
         ELSE [step |-> "return", branch |-> "none", schema |-> NoSchema,
               err |-> [op |-> "compare", subject |-> "",
                        cause |-> <<"unmarshal second">>]]
    ELSE LET cmp == isEqualJSON(r.schema.schema, spec) IN
         IF cmp.err # "nil"
         THEN [step |-> "return", branch |-> "none", schema |-> NoSchema,
               err |-> [op |-> "compare", subject |-> "", cause |-> <<cmp.err>>]]
         ELSE IF cmp.equal
         THEN [step |-> "return", branch |-> "reuse", schema |-> r.schema,
               err |-> NoError]
         ELSE [step |-> "create", branch |-> "update", schema |-> NoSchema,
               err |-> NoError]

\* the lines after GetLatestSchema has answered r, up to the return or the
\* CreateSchema call
AfterFetch(subject, spec, r) ==
    IF r.err # NoErr /\ ~isNotFoundErr(r.err)
    THEN [step |-> "return", branch |-> "none", schema |-> NoSchema,
          err |-> [op |-> "read", subject |-> subject, cause |-> r.err]]
    ELSE IF r.err # NoErr /\ isNotFoundErr(r.err)
    THEN [step |-> "create", branch |-> "new", schema |-> NoSchema, err |-> NoError]
    ELSE LET cmp == isEqualJSON(r.schema.schema, spec) IN
         IF cmp.err # "nil"
         THEN [step |-> "return", branch |-> "none", schema |-> NoSchema,
               err |-> [op |-> "compare", subject |-> "", cause |-> <<cmp.err>>]]
         ELSE IF cmp.equal
         THEN [step |-> "return", branch |-> "reuse", schema |-> r.schema,
               err |-> NoError]
         ELSE [step |-> "create", branch |-> "update", schema |-> NoSchema,
               err |-> NoError]

\* a client that returns the version it has sent, before the registry has
\* given it an id
AfterCreate_unassigned(subject, branch, r) ==
    IF r.err # NoErr
    THEN [schema |-> NoSchema,
          err |-> [op |-> (IF branch = "new" THEN "create" ELSE "update"),
                   subject |-> subject, cause |-> r.err]]
    ELSE [schema |-> [r.schema EXCEPT !.id = 0], err |-> NoError]

\* the lines after CreateSchema has answered r
AfterCreate(subject, branch, r) ==
    IF r.err # NoErr
    THEN [schema |-> NoSchema,
          err |-> [op |-> (IF branch = "new" THEN "create" ELSE "update"),
                   subject |-> subject, cause |-> r.err]]
    ELSE [schema |-> r.schema, err |-> NoError]

\* the record of a call that returns
Returned(c, k, schema, err, creates, reg) ==
    [caller |-> c, subject |-> k.subject, spec |-> k.spec,
     startAt |-> k.startAt, lenStart |-> k.lenStart, seen |-> k.seen,
     lenEnd |-> Len(reg[k.subject]),
     fetch |-> k.fetch, branch |-> k.branch, creates |-> creates,
     ok |-> (err.op = "none"), schema |-> schema, err |-> err]

\* The steps of a caller are written as the set of states they can lead to:
\* a step is possible exactly when its set is not empty.

\* a caller enters EnsureSchema for one of the subjects: GetLatestSchema
\* answers, and the call either returns or goes on to CreateSchema
\* (pairs: the (subject, spec) pairs the call can be made with)
FetchInputs(c, pairs) ==
    {LET subject == in[1]
         spec == in[2]
         r == in[3]
         a == AfterFetch(subject, spec, r)
         k == [pc |-> "create", subject |-> subject, spec |-> spec,
               startAt |-> Len(hist),
               lenStart |-> Len(registry[subject]), seen |-> r.schema,
               fetch |-> r.cause, branch |-> a.branch]
     IN  [faults |-> IF r.cause \in Faults THEN faults + 1 ELSE faults,
          call |-> IF a.step = "create" THEN [call EXCEPT ![c] = k] ELSE call,
          hist |-> IF a.step = "create" THEN hist
                   ELSE Append(hist, Returned(c, k, a.schema, a.err, 0, registry))]
     : in \in UNION {{<<p[1], p[2], r>> : r \in GetLatestSchema(p[1])}
                     : p \in pairs}}

FetchFor(c, among) ==
    IF call[c].pc = "idle" /\ Started < MaxCalls
    THEN FetchInputs(c, among \X SpecTexts)
    ELSE {}

\* a caller that waits for the calls in progress on a subject to return
FetchSteps_exclusive(c) ==
    FetchFor(c, inUse \ {call[d].subject : d \in InFlight})

\* EnsureSchema is entered by any caller at any time, for any subject in use
FetchSteps(c) == FetchFor(c, inUse)

Fetch(c) ==
    /\ \E to \in FetchSteps(c) :
         /\ faults' = to.faults
         /\ call' = to.call
         /\ hist' = to.hist
    /\ UNCHANGED <<registry, nextId, inUse, main, wire>>

\* a client that keeps the subject of its call in a field of its own, which a
\* call entered meanwhile has overwritten
SharedSubject(c) ==
    LET others == {call[d].subject : d \in InFlight \ {c}}
    IN  IF others = {} THEN call[c].subject ELSE CHOOSE s \in others : TRUE

CreateSteps_shared(c) ==
    IF call[c].pc = "create"
    THEN {LET k == call[c]
              subject == SharedSubject(c)
              a == AfterCreate(subject, k.branch, r)
              reg == IF r.err = NoErr
                     THEN [registry EXCEPT ![subject] = Append(@, r.schema)]
                     ELSE registry
          IN  [registry |-> reg,
               nextId |-> IF r.err = NoErr THEN nextId + 1 ELSE nextId,
               hist |-> Append(hist, Returned(c, k, a.schema, a.err, 1, reg)),
               call |-> [call EXCEPT ![c] = Idle],
               faults |-> IF r.cause \in Faults THEN faults + 1 ELSE faults]
          : r \in CreateSchema(SharedSubject(c), call[c].spec)}
    ELSE {}

\* a client that updates a subject by writing over its latest version
CreateSteps_overwrite(c) ==
    IF call[c].pc = "create"
    THEN {LET k == call[c]
              a == AfterCreate(k.subject, k.branch, r)
              n == Len(registry[k.subject])
              reg == IF r.err # NoErr THEN registry
                     ELSE IF n = 0
                     THEN [registry EXCEPT ![k.subject] = Append(@, r.schema)]
                     ELSE [registry EXCEPT ![k.subject][n] = r.schema]
          IN  [registry |-> reg,
               nextId |-> IF r.err = NoErr THEN nextId + 1 ELSE nextId,
               hist |-> Append(hist, Returned(c, k, a.schema, a.err, 1, reg)),
               call |-> [call EXCEPT ![c] = Idle],
               faults |-> IF r.cause \in Faults THEN faults + 1 ELSE faults]
          : r \in CreateSchema(call[c].subject, call[c].spec)}
    ELSE {}

\* a client that makes its create call again when it has failed
CreateSteps_retry(c) ==
    IF call[c].pc = "create"
    THEN {LET k == call[c]
              a == AfterCreate(k.subject, k.branch, r)
              reg == IF r.err = NoErr
                     THEN [registry EXCEPT ![k.subject] = Append(@, r.schema)]
                     ELSE registry
          IN  [registry |-> reg,
               nextId |-> IF r.err = NoErr THEN nextId + 1 ELSE nextId,
               hist |-> IF r.err = NoErr
                        THEN Append(hist, Returned(c, k, a.schema, a.err, 1, reg))
                        ELSE hist,
               call |-> IF r.err = NoErr THEN [call EXCEPT ![c] = Idle] ELSE call,
               faults |-> IF r.cause \in Faults THEN faults + 1 ELSE faults]
          : r \in CreateSchema(call[c].subject, call[c].spec)}
    ELSE {}

\* the CreateSchema call of a caller, and the return
CreateSteps(c) ==
    IF call[c].pc = "create"
    THEN {LET k == call[c]
              a == AfterCreate(k.subject, k.branch, r)
              reg == IF r.err = NoErr
                     THEN [registry EXCEPT ![k.subject] = Append(@, r.schema)]
                     ELSE registry
          IN  [registry |-> reg,
               nextId |-> IF r.err = NoErr THEN nextId + 1 ELSE nextId,
               hist |-> Append(hist, Returned(c, k, a.schema, a.err, 1, reg)),
               call |-> [call EXCEPT ![c] = Idle],
               faults |-> IF r.cause \in Faults THEN faults + 1 ELSE faults]
          : r \in CreateSchema(call[c].subject, call[c].spec)}
    ELSE {}

Create(c) ==
    /\ \E to \in CreateSteps(c) :
         /\ registry' = to.registry
         /\ nextId' = to.nextId
         /\ hist' = to.hist
         /\ call' = to.call
         /\ faults' = to.faults
    /\ UNCHANGED <<inUse, main, wire>>

\* what a subject holds when the process starts: nothing, or one version that
\* another client of the registry has registered (its document need not be
\* JSON: the registry also holds other schema types)
Preloaded == {<<>>, <<TextOf(<<SchemaA, Compact>>)>>, <<BadText>>}

\* the order in which the subjects were first registered
SubjectOrder == <<"X", "Y", "Z">>
Before(s, t) ==
    \E i, j \in 1..Len(SubjectOrder) :
        i < j /\ SubjectOrder[i] = s /\ SubjectOrder[j] = t

\* the registry holding the documents docs[s] under each subject s in use:
\* ids count up from 1 over all subjects, versions from 1 within a subject
Load(docs, used) ==
    LET IdOf(s) == 1 + Cardinality({t \in used : docs[t] # <<>> /\ Before(t, s)})
    IN  [s \in Subjects |->
           IF s \in used /\ docs[s] # <<>>
           THEN <<[id |-> IdOf(s), version |-> 1, schema |-> docs[s][1]]>>
           ELSE <<>>]

InitWith(used) ==
    /\ inUse = used
    /\ \E docs \in [used -> Preloaded] :
         /\ registry = Load(docs, used)
         /\ nextId = 1 + Cardinality({s \in used : docs[s] # <<>>})
    /\ faults = 0
    /\ call = [c \in Callers |-> Idle]
    /\ hist = <<>>

(***************************************************************************)
(* The Avro codec of a schema (Schema.Codec()): a record is written as its *)
(* fields in the order of the schema, each a long, a long as the base-128  *)
(* varint of its zig-zag value.                                            *)
(***************************************************************************)
ZigZag(n) == IF n >= 0 THEN 2 * n ELSE (-2 * n) - 1
UnZigZag(u) == IF u % 2 = 0 THEN u \div 2 ELSE -((u + 1) \div 2)

RECURSIVE Varint(_)
Varint(u) ==
    IF u < 128 THEN <<u>> ELSE <<(u % 128) + 128>> \o Varint(u \div 128)

\* the varint at buf[pos..]: (ok, its 7-bit groups, the least significant
\* first, pos of the byte after it)
RECURSIVE ReadVarint(_, _, _)
ReadVarint(buf, pos, groups) ==
    IF pos > Len(buf) THEN [ok |-> FALSE, groups |-> <<>>, pos |-> pos]
    ELSE IF buf[pos] < 128
         THEN [ok |-> TRUE, groups |-> Append(groups, buf[pos]), pos |-> pos + 1]
    ELSE ReadVarint(buf, pos + 1, Append(groups, buf[pos] - 128))

RECURSIVE GroupsValue(_)
GroupsValue(groups) ==
    IF groups = <<>> THEN 0 ELSE Head(groups) + 128 * GroupsValue(Tail(groups))

\* the long of a varint: a number when it has at most 28 bits, and otherwise
\* the groups themselves, a long beyond every value of Longs
LongOf(groups) ==
    IF Len(groups) <= 4 THEN UnZigZag(GroupsValue(groups))
    ELSE [wide |-> groups]

NoNative == <<>>

\* Codec().BinaryFromNative(nil, value): (payload, err)
RECURSIVE FieldsToBinary(_, _)
FieldsToBinary(fields, value) ==
    IF fields = <<>> THEN <<>>
    ELSE Varint(ZigZag(value[Head(fields)])) \o FieldsToBinary(Tail(fields), value)

BinaryFromNative(fields, value) ==
    IF \A i \in 1..Len(fields) : fields[i] \in DOMAIN value
    THEN [payload |-> FieldsToBinary(fields, value), err |-> FALSE]
    ELSE [payload |-> <<>>, err |-> TRUE]

\* Codec().NativeFromBinary(buf): (value, rest of buf, err)
RECURSIVE FieldsFromBinary(_, _, _, _)
FieldsFromBinary(fields, buf, pos, acc) ==
    IF fields = <<>>
    THEN [value |-> acc, rest |-> SubSeq(buf, pos, Len(buf)), err |-> FALSE]
    ELSE LET r == ReadVarint(buf, pos, <<>>) IN
         IF ~r.ok THEN [value |-> NoNative, rest |-> <<>>, err |-> TRUE]
         ELSE FieldsFromBinary(Tail(fields), buf, r.pos,
                  [f \in DOMAIN acc \cup {Head(fields)} |->
                      IF f = Head(fields) THEN LongOf(r.groups) ELSE acc[f]])

NativeFromBinary(fields, buf) == FieldsFromBinary(fields, buf, 1, <<>>)

(***************************************************************************)
(* wrapSchema: Encode and Decode.                                          *)
(***************************************************************************)
\* A Go int is 64 bits wide: it is written here as its four 16-bit limbs in
\* two's complement, the most significant first; a uint32 as its two limbs.
Limb == 65536

\* the int of a number small enough to be written directly
Int64(n) ==
    IF n >= 0 THEN <<0, 0, n \div Limb, n % Limb>>
    ELSE <<Limb - 1, Limb - 1, Limb - 1 - ((-n - 1) \div Limb),
           Limb - 1 - ((-n - 1) % Limb)>>

\* uint32(id): the low 32 bits
Uint32(id) == <<id[3], id[4]>>

\* the four bytes with the least significant first
PutUint32_little(v) ==
    <<v[2] % 256, v[2] \div 256, v[1] % 256, v[1] \div 256>>

\* binary.BigEndian.PutUint32(b, v)
PutUint32(v) ==
    <<v[1] \div 256, v[1] % 256, v[2] \div 256, v[2] % 256>>

\* an Encode that refuses an id that is not within 0..2^32-1
Encode_checked(schema, value) ==
    LET r == BinaryFromNative(schema.fields, value) IN
    IF r.err \/ schema.id[1] # 0 \/ schema.id[2] # 0
    THEN [bytes |-> <<>>, err |-> TRUE]
    ELSE [bytes |-> <<0>> \o PutUint32(Uint32(schema.id)) \o r.payload,
          err |-> FALSE]

\* wrapSchema.Encode(value): (bytes, err)
Encode(schema, value) ==
    LET r == BinaryFromNative(schema.fields, value) IN
    IF r.err THEN [bytes |-> <<>>, err |-> TRUE]
    ELSE [bytes |-> <<0>> \o PutUint32(Uint32(schema.id)) \o r.payload,
          err |-> FALSE]

\* wrapSchema.Decode(buf): (value, err)
Decode(schema, buf) ==
    LET r == NativeFromBinary(schema.fields, buf) IN
    [value |-> r.value, err |-> r.err]

\* the ids, record schemas and values Encode is used with
\* 0, 7, 300, 2^16 + 1, 2^32 - 1, 2^32 + 7 and -1
CodecIds ==
    {Int64(0), Int64(7), Int64(300), Int64(65537), <<0, 0, Limb - 1, Limb - 1>>,
     <<0, 1, 0, 7>>, Int64(-1)}
CodecFields == {<<"a">>, <<"a", "b">>, <<"b", "a">>}
Longs == {-65, -1, 0, 1, 64}
NativeValues ==
    [{"a"} -> Longs] \cup [{"a", "b"} -> Longs]

\* the buffers Decode is given that no Encode has written
RawInputs ==
    {<<>>, <<2>>, <<2, 4, 6>>, <<128>>, <<0, 0, 0, 0>>,
     <<1, 0, 0, 0, 7, 2>>, <<1, 0, 0, 0, 7, 2, 4>>, <<0, 0, 0, 0, 7>>}

NoWire == [step |-> "none"]

InitCodec ==
    /\ InitWith({"X"})
    /\ main = NoMain
    /\ \E id \in CodecIds, fields \in CodecFields, value \in NativeValues :
         wire = [step |-> "start", schema |-> [id |-> id, fields |-> fields],
                 value |-> value]

\* Encode of the value under the schema
EncodeValue ==
    /\ wire.step = "start"
    /\ LET r == Encode(wire.schema, wire.value) IN
       wire' = [step |-> "encoded", schema |-> wire.schema, value |-> wire.value,
                bytes |-> r.bytes, err |-> r.err]
    /\ UNCHANGED <<registry, nextId, inUse, faults, main, call, hist>>

\* Decode of the envelope a successful Encode returned
DecodeEnvelope ==
    /\ wire.step = "encoded" /\ ~wire.err
    /\ LET r == Decode(wire.schema, wire.bytes) IN
       wire' = [step |-> "decoded", schema |-> wire.schema, value |-> wire.value,
                bytes |-> wire.bytes, decoded |-> r.value, err |-> r.err]
    /\ UNCHANGED <<registry, nextId, inUse, faults, main, call, hist>>

\* Decode of a buffer received from elsewhere
DecodeInput ==
    /\ wire.step = "start"
    /\ \E buf \in RawInputs :
         LET r == Decode(wire.schema, buf) IN
         wire' = [step |-> "received", schema |-> wire.schema,
                  bytes |-> buf, decoded |-> r.value, err |-> r.err]
    /\ UNCHANGED <<registry, nextId, inUse, faults, main, call, hist>>

NextCodec == EncodeValue \/ DecodeEnvelope \/ DecodeInput

SpecCodec == InitCodec /\ [][NextCodec]_vars

(***************************************************************************)
(* Callers that each negotiate a subject of their own, at the same time.   *)
(***************************************************************************)
SubjectOf == [c \in Callers |-> IF c = "c1" THEN "X" ELSE "Y"]

InitTwo == InitWith({"X", "Y"}) /\ wire = NoWire /\ main = NoMain

FetchOwn(c) ==
    /\ \E to \in FetchFor(c, {SubjectOf[c]}) :
         /\ faults' = to.faults
         /\ call' = to.call
         /\ hist' = to.hist
    /\ UNCHANGED <<registry, nextId, inUse, main, wire>>

NextTwo ==
    \/ \E c \in Callers : FetchOwn(c)
    \/ \E c \in Callers : Create(c)

SpecTwo == InitTwo /\ [][NextTwo]_vars

(***************************************************************************)
(* The host process (cmd/monitoring/main.go): it negotiates its three      *)
(* schemas, creates the producer and starts the monitor.                   *)
(***************************************************************************)
\* the goroutine of main
MainCaller == "c1"

\* "transmission-value", the config_set topic + "-value" and the
\* config_set_simplified topic + "-value", with the schema of each
MainSubjects == <<"X", "Y", "Z">>
MainSpecs ==
    <<TextOf(<<SchemaA, Pretty>>), TextOf(<<SchemaB, Compact>>),
      TextOf(<<SchemaAr, Compact>>)>>

InitMain ==
    /\ InitWith(Subjects)
    /\ wire = NoWire
    /\ main = [pc |-> "ensure", n |-> 1, schemas |-> <<>>,
               producer |-> FALSE, monitor |-> FALSE]

\* the process carries on whatever EnsureSchema returned
AfterEnsure_unchecked(m, cl, h) ==
    IF cl[MainCaller].pc = "create" THEN m
    ELSE [m EXCEPT !.pc = IF m.n = Len(MainSubjects) THEN "producer"
                          ELSE "ensure",
                   !.n = IF m.n = Len(MainSubjects) THEN m.n ELSE m.n + 1,
                   !.schemas = Append(@, h[Len(h)].schema)]

\* main after a step of its EnsureSchema call: when the call has returned,
\* an error is fatal, and a Schema is kept and main goes on
AfterEnsure(m, cl, h) ==
    IF cl[MainCaller].pc = "create" THEN m
    ELSE IF ~h[Len(h)].ok THEN [m EXCEPT !.pc = "fatal"]
    ELSE [m EXCEPT !.pc = IF m.n = Len(MainSubjects) THEN "producer"
                          ELSE "ensure",
                   !.n = IF m.n = Len(MainSubjects) THEN m.n ELSE m.n + 1,
                   !.schemas = Append(@, h[Len(h)].schema)]

\* main enters the EnsureSchema call it has come to
MainFetchSteps ==
    IF main.pc = "ensure" /\ call[MainCaller].pc = "idle"
    THEN FetchInputs(MainCaller, {<<MainSubjects[main.n], MainSpecs[main.n]>>})
    ELSE {}

MainFetch ==
    /\ \E to \in MainFetchSteps :
         /\ faults' = to.faults
         /\ call' = to.call
         /\ hist' = to.hist
         /\ main' = AfterEnsure(main, to.call, to.hist)
    /\ UNCHANGED <<registry, nextId, inUse, wire>>

\* the CreateSchema call of main's EnsureSchema call, and its return
MainCreate ==
    /\ main.pc = "ensure"
    /\ \E to \in CreateSteps(MainCaller) :
         /\ registry' = to.registry
         /\ nextId' = to.nextId
         /\ hist' = to.hist
         /\ call' = to.call
         /\ faults' = to.faults
         /\ main' = AfterEnsure(main, to.call, to.hist)
    /\ UNCHANGED <<inUse, wire>>

\* monitoring.NewProducer: an error is fatal
NewProducer ==
    /\ main.pc = "producer"
    /\ \E ok \in BOOLEAN :
         main' = IF ok THEN [main EXCEPT !.pc = "monitor", !.producer = TRUE]
                 ELSE [main EXCEPT !.pc = "fatal"]
    /\ UNCHANGED <<registry, nextId, inUse, faults, call, hist, wire>>

\* NewMultiFeedMonitor with the three schemas and the producer, and
\* go monitor.Start
StartMonitor ==
    /\ main.pc = "monitor"
    /\ main' = [main EXCEPT !.pc = "running", !.monitor = TRUE]
    /\ UNCHANGED <<registry, nextId, inUse, faults, call, hist, wire>>

\* the codec schema of a Schema: its id as an int, and the record its
\* document describes (Schema.ID(), Schema.Codec())
CodecOf(schema) ==
    [id |-> Int64(schema.id), fields |-> SchemaOf(schema.schema).fields]

\* the running monitor encodes a value with one of its three Schemas
Publish ==
    /\ main.pc = "running"
    /\ wire = NoWire
    /\ \E n \in 1..Len(main.schemas), value \in NativeValues :
         LET schema == CodecOf(main.schemas[n])
             r == Encode(schema, value)
         IN  wire' = [step |-> "encoded", schema |-> schema, value |-> value,
                      bytes |-> r.bytes, err |-> r.err, from |-> n]
    /\ UNCHANGED <<registry, nextId, inUse, faults, main, call, hist>>

NextMain == MainFetch \/ MainCreate \/ NewProducer \/ StartMonitor \/ Publish

SpecMain == InitMain /\ [][NextMain]_vars

Init == InitWith({"X"}) /\ wire = NoWire /\ main = NoMain

Next ==
    \/ \E c \in Callers : Fetch(c)
    \/ \E c \in Callers : Create(c)

Spec == Init /\ [][Next]_vars

(***************************************************************************)
(* What the properties below speak of.                                     *)
(***************************************************************************)
Ret == 1..Len(hist)

\* the call returned a Schema and no error
Resolved(i) == hist[i].ok

\* the call's CreateSchema added a version
Added(i) == IF hist[i].creates = 1 /\ hist[i].ok THEN 1 ELSE 0

\* call j was made after call i had returned, for the same subject, and no
\* writer other than call j itself added to the subject from the return of i
\* to the return of j
InSequence(i, j) ==
    /\ i < j
    /\ hist[j].startAt >= i
    /\ hist[j].subject = hist[i].subject
    /\ hist[j].lenStart = hist[i].lenEnd
    /\ hist[j].lenEnd = hist[j].lenStart + Added(j)

Range(seq) == {seq[n] : n \in 1..Len(seq)}

\* the same record up to the order of its fields
SameFields(t1, t2) ==
    /\ SchemaOf(t1).name = SchemaOf(t2).name
    /\ Range(SchemaOf(t1).fields) = Range(SchemaOf(t2).fields)

(***************************************************************************)
(* C1.  Idempotence: two EnsureSchema calls in sequence with the same      *)
(* subject and spec, no other writer in between, that both return a Schema *)
(* return the same id and version; the second issues no create call, and   *)
(* the two together issue one create call when the first did not find the  *)
(* spec already registered.                                                *)
(***************************************************************************)
C1_Idempotence ==
    \A i, j \in Ret :
        (InSequence(i, j) /\ hist[i].spec = hist[j].spec
         /\ Resolved(i) /\ Resolved(j))
        => /\ hist[j].schema.id = hist[i].schema.id
           /\ hist[j].schema.version = hist[i].schema.version
           /\ hist[j].creates = 0
           /\ (hist[i].branch # "reuse" => hist[i].creates + hist[j].creates = 1)

(***************************************************************************)
(* C2.  Version bump on change: of two EnsureSchema calls in sequence for  *)
(* one subject that both return a Schema, the specs written from different *)
(* record schemas (other fields, or the fields in another order), the      *)
(* second issues a create call and returns another id and a greater        *)
(* version than the first.                                                 *)
(***************************************************************************)
C2_VersionBump ==
    \A i, j \in Ret :
        (InSequence(i, j) /\ Resolved(i) /\ Resolved(j)
         /\ SchemaOf(hist[i].spec) # SchemaOf(hist[j].spec))
        => /\ hist[j].creates = 1
           /\ hist[j].schema.id # hist[i].schema.id
           /\ hist[j].schema.version > hist[i].schema.version

C2_Witness ==
    \E i, j \in Ret :
        /\ InSequence(i, j) /\ Resolved(i) /\ Resolved(j)
        /\ ~SameFields(hist[i].spec, hist[j].spec)
        /\ hist[i].creates = 1 /\ hist[j].branch = "update"
        /\ hist[j].schema.version = hist[i].schema.version + 1

(***************************************************************************)
(* C3.  Structural equality tolerance.                                     *)
(***************************************************************************)
\* the call compared the latest document, a JSON text, with a JSON spec
Compared(i) ==
    /\ hist[i].fetch = "none"
    /\ hist[i].seen.schema \in ValidTexts
    /\ hist[i].spec \in ValidTexts

C4_NoCreateAfterFailedFetch ==
    /\ \A c \in Callers :
          call[c].pc = "create" => call[c].fetch \in {"none", "absent"}
    /\ \A i \in Ret :
          hist[i].fetch \in Faults => hist[i].creates = 0 /\ ~Resolved(i)

(***************************************************************************)
(* C5.  Not-found path: a fetch answered with the registry's not-found for *)
(* a subject that holds nothing is followed by exactly one create call;    *)
(* when the create succeeds the call returns the version it created, and   *)
(* the not-found is never the error of the call.                           *)
(***************************************************************************)
C5_NotFoundPath ==
    \A i \in Ret :
        hist[i].fetch = "absent"
        => /\ hist[i].lenStart = 0
           /\ hist[i].branch = "new"
           /\ hist[i].creates = 1
           /\ hist[i].err.op # "read"
           /\ hist[i].err.cause # SubjectNotFoundMsg
           /\ (~Resolved(i) => hist[i].err.op = "create")
           /\ Resolved(i)
              => /\ hist[i].schema.schema = hist[i].spec
                 /\ hist[i].schema.version \in 1..Len(registry[hist[i].subject])
                 /\ registry[hist[i].subject][hist[i].schema.version] = hist[i].schema

C5_Witness ==
    \E i \in Ret :
        /\ hist[i].fetch = "absent" /\ Resolved(i)
        /\ hist[i].creates = 1
        /\ hist[i].schema.version = 1

(***************************************************************************)
(* C6.  Wire layout: the bytes a successful Encode returns are the byte 0, *)
(* the low 32 bits of the schema id with the most significant byte first   *)
(* (the id itself when it is within 0..2^32-1; 0 0 0 7 for id 7), and the  *)
(* payload of the schema's codec: five bytes more than the payload.        *)
(***************************************************************************)
C6_WireLayout ==
    (wire.step = "encoded" /\ ~wire.err)
    => LET b == wire.bytes
           id == wire.schema.id
           payload == BinaryFromNative(wire.schema.fields, wire.value).payload
       IN  /\ Len(b) >= 5
           /\ Len(b) = Len(payload) + 5
           /\ b[1] = 0
           /\ \A n \in 2..5 : b[n] \in 0..255
           /\ b[2] * 256 + b[3] = id[3]
           /\ b[4] * 256 + b[5] = id[4]
           /\ SubSeq(b, 6, Len(b)) = payload
           /\ (id = Int64(7) => SubSeq(b, 1, 5) = <<0, 0, 0, 0, 7>>)
           /\ (id = Int64(300) => SubSeq(b, 1, 5) = <<0, 0, 0, 1, 44>>)

C6_Witness ==
    /\ wire.step = "encoded" /\ ~wire.err
    /\ wire.schema.id = Int64(7)
    /\ wire.schema.fields = <<"a", "b">>
    /\ wire.bytes = <<0, 0, 0, 0, 7, 2, 129, 1>>

(***************************************************************************)
(* C7.  Wire round trip: Decode of the bytes Encode returned for a value   *)
(* that conforms to the schema succeeds and returns that value.            *)
(***************************************************************************)
Conforms(schema, value) == DOMAIN value = Range(schema.fields)

C7_RoundTrip ==
    (wire.step = "decoded" /\ Conforms(wire.schema, wire.value))
    => ~wire.err /\ wire.decoded = wire.value

(***************************************************************************)
(* C8.  Envelope validation: Decode fails on every input shorter than five *)
(* bytes and on every input whose first byte is not 0.                     *)
(***************************************************************************)
C8_EnvelopeValidation ==
    (/\ wire.step = "received"
     /\ (Len(wire.bytes) < 5 \/ wire.bytes[1] # 0))
    => wire.err

(***************************************************************************)
(* C9.  Registration invariant: an EnsureSchema call that returns a Schema *)
(* for a spec that is structurally one of the documents the subject held   *)
(* when the call began returns one of those versions and adds none; a call *)
(* that returns a Schema for a spec structurally different from all of     *)
(* them adds a version with a new id above those the subject held.         *)
(***************************************************************************)
\* the versions the subject held at the fetch of call i
HeldAt(i) == SubSeq(registry[hist[i].subject], 1, hist[i].lenStart)

\* the spec of call i is the document of one of these versions
Registered(i, versions) ==
    \E n \in 1..Len(versions) :
        /\ versions[n].schema \in ValidTexts
        /\ SchemaOf(versions[n].schema) = SchemaOf(hist[i].spec)

C9_RegistrationInvariant ==
    \A i \in Ret :
        Resolved(i)
        => IF Registered(i, HeldAt(i))
           THEN /\ hist[i].creates = 0
                /\ hist[i].schema.version <= hist[i].lenStart
           ELSE /\ hist[i].creates = 1
                /\ hist[i].schema.version > hist[i].lenStart
                /\ \A n \in 1..hist[i].lenStart :
                      HeldAt(i)[n].id < hist[i].schema.id

(***************************************************************************)
(* C10.  Same-subject race: EnsureSchema calls for one subject are not     *)
(* mutually exclusive.  While a call that the registry has answered is    *)
(* between its fetch and its create and the subject is as it was at that   *)
(* fetch, another caller can fetch for the same subject with the same      *)
(* spec, see what the first saw and go on to its own create; and of two    *)
(* calls at their create, either can go first.                             *)
(***************************************************************************)
C10_NotExclusive ==
    \A c, d \in Callers :
        (c # d /\ call[c].pc = "create")
        => /\ CreateSteps(c) # {}
           /\ (/\ call[d].pc = "idle" /\ Started < MaxCalls
               /\ call[c].fetch \in {"none", "absent"}
               /\ Len(registry[call[c].subject]) = call[c].lenStart)
              => \E to \in FetchSteps(d) :
                    /\ to.call[d].pc = "create"
                    /\ to.call[d].subject = call[c].subject
                    /\ to.call[d].spec = call[c].spec
                    /\ to.call[d].fetch = call[c].fetch
                    /\ to.call[c] = call[c]
           /\ call[d].pc = "create" => CreateSteps(d) # {}

\* two calls with the same spec, both answered by the registry itself at
\* their fetch, both before either create, have both created a version
C10_Witness ==
    \E i, j \in Ret :
        /\ i < j
        /\ hist[i].subject = hist[j].subject
        /\ hist[i].spec = hist[j].spec
        /\ hist[i].fetch = hist[j].fetch
        /\ hist[i].fetch \in {"absent", "none"}
        /\ hist[i].lenStart = hist[j].lenStart
        /\ hist[j].startAt < i
        /\ hist[i].creates = 1 /\ hist[j].creates = 1
        /\ Resolved(i) /\ Resolved(j)
        /\ hist[i].schema.id # hist[j].schema.id

(***************************************************************************)
(* C11.  Independence of subjects: of EnsureSchema calls that run at the   *)
(* same time for distinct subjects, each reads the latest version of its   *)
(* own subject only, issues the operations and returns the outcome         *)
(* (created or reused, version, document, error) that it has when run      *)
(* alone on what its subject held at its start, and a subject's sequence   *)
(* of versions is changed by the create of a call for that subject only.   *)
(***************************************************************************)
\* what GetLatestSchema answers a call run alone on the versions held, the
\* answer being of the given kind
AnswerAlone(held, cause) ==
    CASE cause = "none" -> [err |-> NoErr, cause |-> cause,
                            schema |-> held[Len(held)]]
      [] cause = "absent" -> [err |-> SubjectNotFoundMsg, cause |-> cause,
                              schema |-> NoSchema]
      [] cause = "transport" -> [err |-> DialMsg, cause |-> cause,
                                 schema |-> NoSchema]
      [] cause = "gateway" -> [err |-> GatewayNotFoundMsg, cause |-> cause,
                               schema |-> NoSchema]

\* call i did what it does alone on the versions its subject held
AsAlone(i) ==
    LET h == hist[i]
        held == HeldAt(i)
        r == AnswerAlone(held, h.fetch)
        a == AfterFetch(h.subject, h.spec, r)
    IN  /\ h.fetch = "none" => held # <<>>
        /\ h.fetch = "absent" => held = <<>>
        /\ h.seen = r.schema
        /\ h.branch = a.branch
        /\ h.creates = (IF a.step = "create" THEN 1 ELSE 0)
        /\ h.lenEnd = h.lenStart + Added(i)
        /\ a.step = "return" => h.schema = a.schema /\ h.err = a.err
        /\ a.step = "create"
           => IF h.ok
              THEN /\ Unmarshal(h.spec).ok
                   /\ h.schema.version = h.lenStart + 1
                   /\ h.schema.schema = h.spec
                   /\ registry[h.subject][h.lenStart + 1] = h.schema
              ELSE /\ h.err.subject = h.subject
                   /\ h.err.op = (IF a.branch = "new" THEN "create"
                                  ELSE "update")
                   /\ h.err.cause \in {DialMsg, InvalidSchemaMsg}
                   /\ h.err.cause = InvalidSchemaMsg => ~Unmarshal(h.spec).ok

\* no call has changed the subject of a call in progress
Undisturbed ==
    \A c \in Callers :
        call[c].pc = "create"
        => Len(registry[call[c].subject]) = call[c].lenStart

\* a step changes the versions of a subject only as the create of a call for
\* that subject, and only by adding one version
OwnSubjectOnly ==
    \A s \in Subjects :
        registry'[s] # registry[s]
        => /\ \E c \in Callers :
                 /\ call[c].pc = "create" /\ call[c].subject = s
                 /\ call'[c] = Idle
           /\ Len(registry'[s]) = Len(registry[s]) + 1
           /\ SubSeq(registry'[s], 1, Len(registry[s])) = registry[s]

C11_Independence ==
    /\ [](Undisturbed /\ \A i \in Ret : AsAlone(i))
    /\ [][OwnSubjectOnly]_vars

\* two calls for distinct subjects, the second entered before the first
\* returned, have each added a version to their own subject: the first
\* version of one, the second of the other
C11_Witness ==
    \E i, j \in Ret :
        /\ hist[i].subject # hist[j].subject
        /\ i < j /\ hist[j].startAt < i
        /\ hist[i].creates = 1 /\ hist[j].creates = 1
        /\ Resolved(i) /\ Resolved(j)
        /\ hist[i].branch = "new" /\ hist[j].branch = "update"
        /\ hist[i].schema.version = 1 /\ hist[j].schema.version = 2

(***************************************************************************)
(* C12.  Startup ordering of the host process: main makes its EnsureSchema *)
(* calls one after another, for the transmission, the config_set and the   *)
(* config_set_simplified subject in this order; a call that returns an     *)
(* error is the last thing the process does; the producer is created and   *)
(* the monitor started only when all three calls have returned a Schema,   *)
(* and the monitor holds exactly these three Schemas.                      *)
(***************************************************************************)
\* the calls are made by main alone, in the order of MainSubjects, each
\* entered after the one before it has returned with a Schema
OneAfterAnother ==
    /\ Len(hist) <= Len(MainSubjects)
    /\ \A c \in Callers \ {MainCaller} : call[c].pc = "idle"
    /\ call[MainCaller].pc = "create"
       => /\ Len(hist) < Len(MainSubjects)
          /\ call[MainCaller].subject = MainSubjects[Len(hist) + 1]
          /\ \A i \in Ret : Resolved(i)
    /\ \A i \in Ret :
          /\ hist[i].caller = MainCaller
          /\ hist[i].subject = MainSubjects[i]
          /\ hist[i].spec = MainSpecs[i]
          /\ hist[i].startAt = i - 1
          /\ \A j \in 1..(i - 1) : Resolved(j)

\* an error of a call has ended the process
FailureIsFatal ==
    \A i \in Ret :
        ~Resolved(i)
        => /\ main.pc = "fatal"
           /\ i = Len(hist)
           /\ ~main.producer /\ ~main.monitor
           /\ call[MainCaller].pc = "idle"

\* the process is past its negotiations
Negotiated ==
    main.pc \in {"producer", "monitor", "running"} \/ main.producer \/ main.monitor

AfterAllThree ==
    /\ Negotiated
       => /\ Len(hist) = Len(MainSubjects)
          /\ \A i \in Ret : Resolved(i)
          /\ main.schemas = [i \in 1..Len(MainSubjects) |-> hist[i].schema]
          /\ \A i \in Ret : main.schemas[i].id > 0
    /\ main.monitor => main.producer
    /\ main.pc = "running" <=> main.monitor

\* a process that has ended takes no step
FatalIsFinal == main.pc = "fatal" => UNCHANGED vars

C12_StartupOrder ==
    /\ [](OneAfterAnother /\ FailureIsFatal /\ AfterAllThree)
    /\ [][FatalIsFinal]_vars

\* the monitor runs with a version found equal, a version added to those of
\* a subject, and the first version of a subject
C12_Witness ==
    /\ main.pc = "running" /\ main.monitor /\ main.producer
    /\ Len(hist) = 3
    /\ hist[1].branch = "reuse"
    /\ hist[2].branch = "update"
    /\ hist[3].branch = "new"
    /\ main.schemas[2].version = 2

(***************************************************************************)
(* C13.  Registry append-only: under every interleaving of EnsureSchema    *)
(* calls, a step leaves every version of every subject where it is and as  *)
(* it is, and adds at most one version at the end of one subject; an id    *)
(* names one version of one subject, with one document, for good.          *)
(***************************************************************************)
\* all the (subject, version) places of the registry
Places(reg) == UNION {{<<s, n>> : n \in 1..Len(reg[s])} : s \in Subjects}

\* versions are numbered from 1 within a subject, and no two share an id
WellNumbered(reg) ==
    /\ \A p \in Places(reg) : reg[p[1]][p[2]].version = p[2]
    /\ \A p, q \in Places(reg) :
          reg[p[1]][p[2]].id = reg[q[1]][q[2]].id => p = q

\* what a step does to the registry
OnlyGrows ==
    /\ \A s \in Subjects :
          /\ Len(registry'[s]) >= Len(registry[s])
          /\ SubSeq(registry'[s], 1, Len(registry[s])) = registry[s]
    /\ \A p \in Places(registry'), q \in Places(registry) :
          registry'[p[1]][p[2]].id = registry[q[1]][q[2]].id
          => /\ p = q
             /\ registry'[p[1]][p[2]].schema = registry[q[1]][q[2]].schema
    /\ Cardinality(Places(registry')) <= Cardinality(Places(registry)) + 1

C13_AppendOnly ==
    /\ []WellNumbered(registry)
    /\ [][OnlyGrows]_vars

\* a subject that held one version holds three, the two added by calls that
\* were in progress at the same time
C13_Witness ==
    \E s \in Subjects, i, j \in Ret :
        /\ Len(registry[s]) = 3
        /\ i < j /\ hist[j].startAt < i
        /\ hist[i].subject = s /\ hist[j].subject = s
        /\ hist[i].lenStart = 1 /\ hist[j].lenStart = 1
        /\ Added(i) = 1 /\ Added(j) = 1
        /\ registry[s][2] = hist[i].schema
        /\ registry[s][3] = hist[j].schema

(***************************************************************************)
(* C14.  No write on equal: a call whose fetch returned the latest version *)
(* of the subject, its document the same JSON value as the spec, issues no *)
(* create call and returns that version, its id and version number as      *)
(* fetched; the step in which a call returns without a create call leaves  *)
(* the registry as it is.                                                  *)
(***************************************************************************)
\* the fetch of call i returned a document that is the JSON value of its spec
FoundEqual(i) ==
    /\ Compared(i)
    /\ SchemaOf(hist[i].seen.schema) = SchemaOf(hist[i].spec)

NoWriteOnEqual ==
    \A i \in Ret :
        FoundEqual(i)
        => /\ hist[i].creates = 0
           /\ hist[i].branch = "reuse"
           /\ Resolved(i) /\ hist[i].err = NoError
           /\ hist[i].schema = hist[i].seen
           /\ hist[i].schema.id = HeldAt(i)[hist[i].lenStart].id
           /\ hist[i].schema.version = hist[i].lenStart
           /\ hist[i].lenEnd >= hist[i].lenStart
           /\ registry[hist[i].subject][hist[i].lenStart] = hist[i].seen

\* a call returns from its fetch
ReturnsAtFetch ==
    /\ Len(hist') = Len(hist) + 1
    /\ hist'[Len(hist')].creates = 0

OneStepLeft ==
    \A c \in Callers :
        call[c].pc = "create"
        => /\ CreateSteps(c) # {}
           /\ \A to \in CreateSteps(c) :
                 /\ to.call[c] = Idle
                 /\ Len(to.hist) = Len(hist) + 1
                 /\ to.hist[Len(to.hist)].caller = c
                 /\ to.hist[Len(to.hist)].startAt = call[c].startAt
                 /\ to.hist[Len(to.hist)].creates = 1

\* the operations a returned call has made
CountsOps ==
    \A i \in Ret :
        /\ hist[i].creates \in {0, 1}
        /\ hist[i].branch \in {"none", "reuse"} <=> hist[i].creates = 0
        /\ hist[i].fetch = "transport" => hist[i].creates = 0

\* the steps of the protocol
ProtocolStep ==
    /\ Len(hist') \in {Len(hist), Len(hist) + 1}
    /\ SubSeq(hist', 1, Len(hist)) = hist
    /\ \A c \in Callers :
          /\ (call[c].pc = "create" /\ call'[c] # call[c])
             => /\ call'[c] = Idle
                /\ Len(hist') = Len(hist) + 1
                /\ hist'[Len(hist')].caller = c
                /\ hist'[Len(hist')].creates = 1
          /\ (call[c].pc = "idle" /\ call'[c].pc = "create")
             => /\ hist' = hist
                /\ registry' = registry
                /\ call'[c].startAt = Len(hist)
    /\ registry' # registry
       => \E c \in Callers : call[c].pc = "create" /\ call'[c] = Idle
    /\ Len(hist') = Len(hist) + 1 /\ hist'[Len(hist')].creates = 0
       => /\ call' = call
          /\ call[hist'[Len(hist')].caller].pc = "idle"

C15_NoRetries ==
    /\ [](OneStepLeft /\ CountsOps)
    /\ [][ProtocolStep]_vars

\* a call whose create call failed has returned the error, the subject as
\* it was, and its caller has entered no other call
C15_Witness ==
    \E i \in Ret :
        /\ hist[i].fetch = "none"
        /\ hist[i].creates = 1 /\ ~Resolved(i)
        /\ hist[i].err.cause = DialMsg
        /\ hist[i].lenEnd = hist[i].lenStart
        /\ i = Len(hist)
        /\ call[hist[i].caller] = Idle

(***************************************************************************)
(* C16.  Parse failure is fatal to the call.                               *)
(***************************************************************************)
\* the spec of call i, or the document its fetch returned, is no JSON value
ParseFails(i) ==
    \/ ~Unmarshal(hist[i].spec).ok
    \/ hist[i].fetch = "none" /\ ~Unmarshal(hist[i].seen.schema).ok

\* C16 as stated: a call whose spec or whose fetched document fails to parse
\* returns an error and issues no create call, whether the subject exists
\* or not
C16_AsStated ==
    \A i \in Ret :
        ParseFails(i) => ~Resolved(i) /\ hist[i].creates = 0

\* C16 as amended: a call whose spec or whose fetched document fails to
\* parse returns an error and adds no version.  When the fetch returned a
\* document, the error is that of the comparison and no create call is
\* issued; when the fetch was taken as not-found, nothing is parsed: the
\* spec is sent in the one create call, and the error is that of the create
\* call (the registry's rejection of the spec, or a transport failure).
C16_ParseFailure ==
    \A i \in Ret :
        ParseFails(i)
        => /\ ~Resolved(i)
           /\ hist[i].schema = NoSchema
           /\ Added(i) = 0
           /\ hist[i].fetch = "none"
              => /\ hist[i].creates = 0
                 /\ hist[i].err.op = "compare"
                 /\ hist[i].err.cause =
                      (IF ~Unmarshal(hist[i].seen.schema).ok
                       THEN <<"unmarshal first">> ELSE <<"unmarshal second">>)
           /\ hist[i].fetch \in {"absent", "gateway"}
              => /\ hist[i].creates = 1
                 /\ hist[i].err.op = "create"
                 /\ hist[i].err.cause \in {InvalidSchemaMsg, DialMsg}
           /\ hist[i].fetch = "transport"
              => hist[i].creates = 0 /\ hist[i].err.op = "read"

\* a spec that is no JSON value was sent to the registry under a subject
\* that held nothing, and the registry has rejected it
C16_Witness ==
    \E i \in Ret :
        /\ hist[i].spec = BadText
        /\ hist[i].fetch = "absent"
        /\ hist[i].creates = 1
        /\ ~Resolved(i)
        /\ hist[i].err.cause = InvalidSchemaMsg
        /\ registry[hist[i].subject] = <<>>

(***************************************************************************)
(* C17.  Outcome shape: a call returns either a Schema and no error, or an *)
(* error and no Schema; the error of a failed fetch, create, update or     *)
(* comparison names the operation and the subject and wraps the error it   *)
(* was made from.                                                          *)
(***************************************************************************)
C17_OutcomeShape ==
    \A i \in Ret :
        /\ Resolved(i) <=> hist[i].err = NoError
        /\ Resolved(i) => hist[i].schema # NoSchema /\ hist[i].schema.id > 0
        /\ ~Resolved(i)
           => /\ hist[i].schema = NoSchema
              /\ hist[i].err.op \in {"read", "create", "update", "compare"}
              /\ hist[i].err.cause # NoErr
              /\ hist[i].err.subject = hist[i].subject

(***************************************************************************)
(* C18.  Envelope id validity: the envelope Encode returns for a Schema    *)
(* that an EnsureSchema call of main returned carries in its bytes 1..4    *)
(* the id of a version the registry holds under the subject of that call,  *)
(* and its payload is written by the codec of that version's document.     *)
(***************************************************************************)
\* the int that the bytes 1..4 of an envelope are
HeaderId(b) == <<0, 0, b[2] * 256 + b[3], b[4] * 256 + b[5]>>

C18_EnvelopeId ==
    (wire.step = "encoded" /\ ~wire.err)
    => /\ Resolved(wire.from)
       /\ hist[wire.from].schema = main.schemas[wire.from]
       /\ \E n \in 1..Len(registry[MainSubjects[wire.from]]) :
            LET version == registry[MainSubjects[wire.from]][n] IN
            /\ Int64(version.id) = HeaderId(wire.bytes)
            /\ version = main.schemas[wire.from]
            /\ version.schema \in ValidTexts
            /\ SubSeq(wire.bytes, 6, Len(wire.bytes))
                 = BinaryFromNative(SchemaOf(version.schema).fields,
                                    wire.value).payload
       /\ \A p \in Places(registry) :
             Int64(registry[p[1]][p[2]].id) = HeaderId(wire.bytes)
             => p[1] = MainSubjects[wire.from]

\* an envelope of the third Schema, a version the call has created with the
\* id 4, the fields in the order b, a
C18_Witness ==
    /\ wire.step = "encoded" /\ ~wire.err
    /\ wire.from = 3
    /\ hist[3].creates = 1
    /\ main.schemas[3].id = 4
    /\ wire.value = [a |-> 1, b |-> 64]
    /\ wire.bytes = <<0, 0, 0, 0, 4, 128, 1, 2>>

(***************************************************************************)
(* C19.  Postcondition of a successful negotiation: when a call returns a  *)
(* Schema and no one else has added to its subject during the call, the    *)
(* latest document of the subject at the return is the JSON value of the   *)
(* spec and the latest version is the Schema returned.  Whoever else has   *)
(* added to the subject meanwhile, a call that returns the version its own *)
(* create call added returns the latest version of the subject, its        *)
(* document the spec: the postcondition fails at the return of a call only *)
(* when the call has reused the version it fetched.                        *)
(***************************************************************************)
\* the latest version of the subject of call i when the call returned
LatestAtReturn(i) == registry[hist[i].subject][hist[i].lenEnd]

\* no one but call i has added to its subject during the call
NoOtherWriter(i) == hist[i].lenEnd = hist[i].lenStart + Added(i)

PostconditionAt(i) ==
    /\ hist[i].lenEnd >= 1
    /\ LatestAtReturn(i).schema \in ValidTexts
    /\ SchemaOf(LatestAtReturn(i).schema) = SchemaOf(hist[i].spec)
    /\ LatestAtReturn(i).id = hist[i].schema.id
    /\ LatestAtReturn(i) = hist[i].schema

InRange(id) == id[1] = 0 /\ id[2] = 0

\* the two ids differ by a multiple of 2^32
Congruent(id1, id2) == id1[3] = id2[3] /\ id1[4] = id2[4]

C20_IdFieldWidth ==
    wire.step = "encoded"
    => /\ wire.err <=> BinaryFromNative(wire.schema.fields, wire.value).err
       /\ ~wire.err
          => /\ HeaderId(wire.bytes)[3] = wire.schema.id[3]
             /\ HeaderId(wire.bytes)[4] = wire.schema.id[4]
             /\ InRange(wire.schema.id) <=> HeaderId(wire.bytes) = wire.schema.id
             /\ \A id \in CodecIds :
                   Congruent(id, wire.schema.id)
                   <=> Encode([id |-> id, fields |-> wire.schema.fields],
                              wire.value)
                         = [bytes |-> wire.bytes, err |-> FALSE]

\* the envelope of the id 2^32 + 7 has the header of the id 7
C20_Witness ==
    /\ wire.step = "encoded" /\ ~wire.err
    /\ wire.schema.id = <<0, 1, 0, 7>>
    /\ ~InRange(wire.schema.id)
    /\ SubSeq(wire.bytes, 1, 5) = <<0, 0, 0, 0, 7>>
    /\ Encode([id |-> Int64(7), fields |-> wire.schema.fields], wire.value).bytes
         = wire.bytes
====
